---- MODULE Spec2Model ----
(***************************************************************************)
(* Model of plot_results.py: the command-line script that loads CSV files  *)
(* of response times, derives an algorithm name per file, computes         *)
(* median/p90/p99 for all, short and long tasks, and renders a chart and a *)
(* console summary.                                                        *)
(*                                                                         *)
(* Strings are sequences of ASCII code points, so upper-casing, regular    *)
(* expression matching and string ordering are computed, not assumed.      *)
(* Statistics are kept in hundredths (value * 100), which is exact for     *)
(* integer samples under linear interpolation at 0.50, 0.90 and 0.99.      *)
(***************************************************************************)
EXTENDS Integers, Sequences, FiniteSets, TLC

VARIABLES
    argv,        \* sys.argv[1:], a sequence of paths
    fs,          \* the file system: path -> content
    pc,          \* position of the script
    idx,         \* index of csv_file in the for loop (1-based)
    df,          \* the table loaded by pd.read_csv for the current file
    results,     \* the list `results`
    out,         \* console output, one entry per printed block
    reads,       \* paths handed to pd.read_csv, in order
    saves,       \* number of times algorithm_comparison.png was written
    exitStatus,  \* process exit status, -1 while running
    chart,       \* x tick labels and bar heights handed to matplotlib
    filename,    \* SpecName: the argument of extract_algorithm_name
    algo_name,   \* SpecName: its return value
    st_df,       \* SpecStats: a loaded table
    st_stats,    \* SpecStats: result of calculate_percentiles
    st_types,    \* SpecStats: result of identify_task_types
    st_class,    \* SpecStats: short_stats and long_stats
    st_pc        \* SpecStats: position

pipeVars == <<argv, fs, pc, idx, df, results, out, reads, saves, exitStatus, chart>>
nameVars == <<filename, algo_name>>
statVars == <<st_df, st_stats, st_types, st_class, st_pc>>
vars == <<argv, fs, pc, idx, df, results, out, reads, saves, exitStatus, chart,
          filename, algo_name, st_df, st_stats, st_types, st_class, st_pc>>

(***************************************************************************)
(* Bounds                                                                  *)
(***************************************************************************)
MaxArgs == 2    \* longest argument list
MaxRows == 4    \* most rows in a table of SpecStats
MaxRT   == 2    \* response_time_ms ranges over 0..MaxRT
MaxDur  == 3    \* duration_ms ranges over 1..MaxDur

\* Python's None, and a present value
None == [some |-> FALSE]
Some(v) == [some |-> TRUE, val |-> v]

\* A float: a number in hundredths, or NaN
Float(v) == [nan |-> FALSE, v |-> v]
NaN == [nan |-> TRUE, v |-> 0]

\* a <= b on floats: every comparison with NaN is false
FloatLessEq(a, b) == ~a.nan /\ ~b.nan /\ a.v <= b.v

(***************************************************************************)
(* Strings                                                                 *)
(***************************************************************************)
RESULTS_TOKEN == <<95, 114, 101, 115, 117, 108, 116, 115, 95>>   \* "_results_"

IsUnderscore(c) == c = 95
IsSlash(c) == c = 47
IsDot(c) == c = 46

\* str.upper() on ASCII
UpperChar(c) == IF c >= 97 /\ c <= 122 THEN c - 32 ELSE c
Upper(s) == [k \in 1..Len(s) |-> UpperChar(s[k])]

\* str.lower() on ASCII
LowerChar(c) == IF c >= 65 /\ c <= 90 THEN c + 32 ELSE c
Lower(s) == [k \in 1..Len(s) |-> LowerChar(s[k])]

\* s < t for Python strings: code-point lexicographic order
StrLess(s, t) ==
    \E k \in 1..(Len(t)) :
        /\ k <= Len(s) + 1
        /\ \A j \in 1..(k - 1) : s[j] = t[j]
        /\ (k = Len(s) + 1 \/ s[k] < t[k])

StrLessEq(s, t) == s = t \/ StrLess(s, t)

StartsWithAt(s, tok, k) ==
    /\ k >= 1
    /\ k + Len(tok) - 1 <= Len(s)
    /\ \A j \in 1..Len(tok) : s[k + j - 1] = tok[j]

(***************************************************************************)
(* Path(filename).stem                                                     *)
(***************************************************************************)
\* pathlib drops trailing slashes when it parses the path
RECURSIVE StripTrailingSlashes(_)
StripTrailingSlashes(p) ==
    IF Len(p) > 1 /\ IsSlash(p[Len(p)])
    THEN StripTrailingSlashes(SubSeq(p, 1, Len(p) - 1))
    ELSE p

\* Path.name: the final path component
PathName(p) ==
    LET q == StripTrailingSlashes(p)
        slashes == {k \in 1..Len(q) : IsSlash(q[k])}
        last == IF slashes = {} THEN 0
                ELSE CHOOSE k \in slashes : \A j \in slashes : j <= k
    IN SubSeq(q, last + 1, Len(q))

\* Path.stem: the name without its last suffix; a leading or trailing dot
\* is not a suffix separator (0 < i < len(name) - 1, 0-based)
PathStem(p) ==
    LET name == PathName(p)
        dots == {k \in 1..Len(name) : IsDot(name[k])}
        i == IF dots = {} THEN 0
             ELSE CHOOSE k \in dots : \A j \in dots : j <= k
    IN IF i > 1 /\ i < Len(name) THEN SubSeq(name, 1, i - 1) ELSE name

(***************************************************************************)
(* extract_algorithm_name                                                  *)
(***************************************************************************)
\* length of the run of non-underscore characters at the start of s:
\* what the greedy group ([^_]+) consumes
RECURSIVE LeadingRun(_, _)
LeadingRun(s, n) ==
    IF n < Len(s) /\ ~IsUnderscore(s[n + 1]) THEN LeadingRun(s, n + 1) ELSE n

\* re.match(r'^([^_]+)_results_', stem): the length of group 1, or 0 when
\* there is no match.  The group cannot give characters back, because the
\* character after it has to be an underscore.
RegexGroupLen(stem) ==
    LET n == LeadingRun(stem, 0)
    IN IF n >= 1 /\ StartsWithAt(stem, RESULTS_TOKEN, n + 1) THEN n ELSE 0

\* faulty variant: the group accepts underscores and may be empty ('^(.*?)_results_')
ExtractAnyPrefix(path) ==
    LET stem == PathStem(path)
        hits == {k \in 1..Len(stem) : StartsWithAt(stem, RESULTS_TOKEN, k)}
    IN IF hits = {} THEN stem
       ELSE Upper(SubSeq(stem, 1, (CHOOSE k \in hits : \A j \in hits : k <= j) - 1))

extract_algorithm_name(path) ==
    LET stem == PathStem(path)
        n == RegexGroupLen(stem)
    IN IF n > 0 THEN Upper(SubSeq(stem, 1, n)) ELSE stem

(***************************************************************************)
(* Tables and series                                                       *)
(***************************************************************************)
\* A loaded table: the set of column names and the rows.  Every row record
\* carries both fields; a field is readable only if its column is present.
Row(rt, dur) == [response_time_ms |-> rt, duration_ms |-> dur]

HasColumn(t, col) == col \in t.columns

\* df[df[duration_ms] == d]: the rows whose duration equals d, in table order
RowsWithDuration(rows, d) ==
    LET Keep(r) == r.duration_ms = d IN SelectSeq(rows, Keep)

\* df['response_time_ms'] as a sequence of values
ResponseTimes(rows) == [k \in 1..Len(rows) |-> rows[k].response_time_ms]

\* df['duration_ms'].unique()
UniqueDurations(rows) == {rows[k].duration_ms : k \in 1..Len(rows)}

SetMin(S) == CHOOSE x \in S : \A y \in S : x <= y
SetMax(S) == CHOOSE x \in S : \A y \in S : y <= x

\* ascending sort of a numeric sequence (insertion sort)
RECURSIVE InsertNum(_, _)
InsertNum(x, s) ==
    IF s = <<>> THEN <<x>>
    ELSE IF x <= Head(s) THEN <<x>> \o s
    ELSE <<Head(s)>> \o InsertNum(x, Tail(s))

RECURSIVE SortNum(_)
SortNum(s) == IF s = <<>> THEN <<>> ELSE InsertNum(Head(s), SortNum(Tail(s)))

(***************************************************************************)
(* calculate_percentiles                                                   *)
(***************************************************************************)
\* Series.median() in hundredths: the middle value, or the mean of the two
\* middle values
Median100(s) ==
    LET x == SortNum(s)
        n == Len(x)
    IN IF n % 2 = 1 THEN 100 * x[(n + 1) \div 2]
       ELSE 50 * (x[n \div 2] + x[n \div 2 + 1])

\* Series.quantile(q/100) in hundredths, linear interpolation: the virtual
\* index is q*(n-1); the result lies between the two neighbouring ranks
QuantileOf100(x, q) ==
    LET n == Len(x)
        pos == q * (n - 1)
        lo == pos \div 100
        g == pos % 100
        hi == IF lo + 1 <= n - 1 THEN lo + 1 ELSE n - 1
    IN 100 * x[lo + 1] + g * (x[hi + 1] - x[lo + 1])

\* faulty variant: the quantile is read off the series in file order (not sorted)
QuantileUnsorted100(s, q) == QuantileOf100(s, q)

Quantile100(s, q) == QuantileOf100(SortNum(s), q)

\* On an empty series pandas yields NaN for each statistic
calculate_percentiles(s) ==
    IF s = <<>>
    THEN [median |-> NaN, p90 |-> NaN, p99 |-> NaN]
    ELSE [median |-> Float(Median100(s)),
          p90    |-> Float(Quantile100(s, 90)),
          p99    |-> Float(Quantile100(s, 99))]

(***************************************************************************)
(* identify_task_types                                                     *)
(***************************************************************************)
\* faulty variant: the long class is everything that is not short
IdentifyLongIsRest(rows) ==
    LET u == UniqueDurations(rows)
        NotShort(r) == r.duration_ms # SetMin(u)
    IN IF u = {} THEN [short |-> None, long |-> None]
       ELSE [short |-> Some(RowsWithDuration(rows, SetMin(u))),
             long  |-> Some(SelectSeq(rows, NotShort))]

\* returns (short_tasks, long_tasks); an empty DataFrame is the empty sequence
identify_task_types(rows) ==
    LET u == UniqueDurations(rows)
    IN IF Cardinality(u) >= 2
       THEN [short |-> Some(RowsWithDuration(rows, SetMin(u))),
             long  |-> Some(RowsWithDuration(rows, SetMax(u)))]
       ELSE IF Cardinality(u) = 1
       THEN [short |-> Some(RowsWithDuration(rows, SetMin(u))),
             long  |-> Some(<<>>)]
       ELSE [short |-> None, long |-> None]

(***************************************************************************)
(* The file system and the command line                                    *)
(***************************************************************************)
BoundedSeq(S, n) == UNION {[1..k -> S] : k \in 0..n}

Columns == {"response_time_ms", "duration_ms"}

\* What a path can hold
Missing    == [exists |-> FALSE, parsable |-> FALSE, columns |-> {}, rows |-> <<>>]
\* a zero-byte file: pd.read_csv raises
Unparsable == [exists |-> TRUE, parsable |-> FALSE, columns |-> {}, rows |-> <<>>]
NoResponseTime == [exists |-> TRUE, parsable |-> TRUE,
                   columns |-> {"duration_ms"}, rows |-> <<Row(0, 1)>>]
NoDuration == [exists |-> TRUE, parsable |-> TRUE,
               columns |-> {"response_time_ms"}, rows |-> <<Row(3, 0)>>]
\* header line only
HeaderOnly == [exists |-> TRUE, parsable |-> TRUE, columns |-> Columns, rows |-> <<>>]
OneDuration == [exists |-> TRUE, parsable |-> TRUE, columns |-> Columns,
                rows |-> <<Row(4, 1), Row(2, 1)>>]
TwoDurations == [exists |-> TRUE, parsable |-> TRUE, columns |-> Columns,
                 rows |-> <<Row(0, 1), Row(7, 2), Row(0, 1)>>]
ThreeDurations == [exists |-> TRUE, parsable |-> TRUE, columns |-> Columns,
                   rows |-> <<Row(1, 1), Row(9, 3), Row(5, 2), Row(6, 3)>>]

Contents == {Missing, Unparsable, NoResponseTime, NoDuration,
             HeaderOnly, OneDuration, TwoDurations, ThreeDurations}

\* Paths given on the command line
PathFifo1      == <<102, 105, 102, 111, 95, 114, 101, 115, 117, 108, 116, 115, 95, 49, 46, 99, 115, 118>>  \* "fifo_results_1.csv"
PathFifo2      == <<114, 101, 115, 117, 108, 116, 115, 47, 102, 105, 102, 111, 95, 114, 101, 115, 117, 108, 116, 115, 95, 50, 46, 99, 115, 118>>  \* "results/fifo_results_2.csv"
PathRoundRobin == <<114, 111, 117, 110, 100, 95, 114, 111, 98, 105, 110, 95, 114, 101, 115, 117, 108, 116, 115, 95, 49, 46, 99, 115, 118>>  \* "round_robin_results_1.csv"
PathAlpha      == <<97, 108, 112, 104, 97, 46, 99, 115, 118>>  \* "alpha.csv"
PathZeta       == <<90, 101, 116, 97, 46, 99, 115, 118>>  \* "Zeta.csv"

Paths == {PathFifo1, PathFifo2, PathRoundRobin, PathAlpha, PathZeta}

Range(f) == {f[k] : k \in DOMAIN f}

(***************************************************************************)
(* Statistics of one file (lines 75-97)                                    *)
(***************************************************************************)
\* faulty variant: statistics are computed for every class that is not None, so an
\* empty long class gets NaN statistics
ClassStatsNoLenCheck(tasks) ==
    IF tasks.some
    THEN Some(calculate_percentiles(ResponseTimes(tasks.val)))
    ELSE None

\* statistics of a class returned by identify_task_types: None unless the
\* class is a table with at least one row
ClassStats(tasks) ==
    IF tasks.some /\ Len(tasks.val) > 0
    THEN Some(calculate_percentiles(ResponseTimes(tasks.val)))
    ELSE None

ResultOf(path, table) ==
    LET types == identify_task_types(table.rows)
    IN [algorithm |-> extract_algorithm_name(path),
        all       |-> calculate_percentiles(ResponseTimes(table.rows)),
        short     |-> ClassStats(types.short),
        long      |-> ClassStats(types.long),
        file      |-> path]

(***************************************************************************)
(* sorted(results, key=lambda x: x['algorithm'])                           *)
(***************************************************************************)
\* put r behind every element whose key is not greater: equal keys keep
\* their order
RECURSIVE InsertByName(_, _)
InsertByName(r, s) ==
    IF s = <<>> THEN <<r>>
    ELSE IF StrLess(r.algorithm, Head(s).algorithm) THEN <<r>> \o s
    ELSE <<Head(s)>> \o InsertByName(r, Tail(s))

RECURSIVE SortFrom(_, _)
SortFrom(rs, acc) ==
    IF rs = <<>> THEN acc ELSE SortFrom(Tail(rs), InsertByName(Head(rs), acc))

\* faulty variant: the list is displayed in command-line order
NotSorted(rs) == rs

\* faulty variant: one entry per algorithm name, a later file replacing an earlier
RECURSIVE MergeByName(_, _)
MergeByName(rs, acc) ==
    IF rs = <<>> THEN acc
    ELSE LET r == Head(rs)
             Other(e) == e.algorithm # r.algorithm
         IN MergeByName(Tail(rs), InsertByName(r, SelectSeq(acc, Other)))

SortedMerged(rs) == MergeByName(rs, <<>>)

Sorted(rs) == SortFrom(rs, <<>>)

(***************************************************************************)
(* Chart and summary table                                                 *)
(***************************************************************************)
\* r[kind][metric] if r[kind] else 0
BarHeight(stats, metric) == IF stats.some THEN stats.val[metric] ELSE Float(0)

Bars(stats) == [median |-> BarHeight(stats, "median"),
                p90    |-> BarHeight(stats, "p90"),
                p99    |-> BarHeight(stats, "p99")]

\* a cell of the summary table: a float printed with two decimals, or N/A
NumberCell(x) == [fmt |-> ".2f", val |-> x]
NACell == [fmt |-> "N/A"]

Cell(stats, metric) == IF stats.some THEN NumberCell(stats.val[metric]) ELSE NACell

SummaryBlock(r) ==
    [algorithm |-> r.algorithm,
     all   |-> [m \in {"median", "p90", "p99"} |-> NumberCell(r.all[m])],
     short |-> [m \in {"median", "p90", "p99"} |-> Cell(r.short, m)],
     long  |-> [m \in {"median", "p90", "p99"} |-> Cell(r.long, m)]]

NoChart == [labels |-> <<>>, short |-> <<>>, long |-> <<>>]

(***************************************************************************)
(* The script                                                              *)
(***************************************************************************)
NameIdle == filename = <<>> /\ algo_name = None
StatsIdle ==
    st_df = <<>> /\ st_stats = None /\ st_types = None /\ st_class = None /\ st_pc = "idle"
PipeIdle ==
    /\ argv = <<>> /\ fs = [p \in Paths |-> Missing] /\ pc = "idle" /\ idx = 0
    /\ df = None /\ results = <<>> /\ out = <<>> /\ reads = <<>> /\ saves = 0
    /\ exitStatus = -1 /\ chart = NoChart

\* The process is started with up to MaxArgs paths; a path that is not on
\* the command line is never looked at
Init ==
    /\ argv \in BoundedSeq(Paths, MaxArgs)
    /\ \E g \in [Range(argv) -> Contents] :
           fs = [p \in Paths |-> IF p \in Range(argv) THEN g[p] ELSE Missing]
    /\ pc = "main"
    /\ idx = 0
    /\ df = None
    /\ results = <<>>
    /\ out = <<>>
    /\ reads = <<>>
    /\ saves = 0
    /\ exitStatus = -1
    /\ chart = NoChart
    /\ NameIdle
    /\ StatsIdle

\* an uncaught exception: the traceback is printed and the interpreter
\* exits with status 1
Raise(path) ==
    /\ out' = Append(out, [ev |-> "traceback", file |-> path])
    /\ exitStatus' = 1
    /\ pc' = "crashed"

\* main, lines 241-245: no argument
MainUsage ==
    /\ pc = "main"
    /\ Len(argv) < 1
    /\ out' = Append(out, [ev |-> "usage"])
    /\ exitStatus' = 1
    /\ pc' = "exited"
    /\ UNCHANGED <<argv, fs, idx, df, results, reads, saves, chart,
                 nameVars, statVars>>

\* main, lines 247-250, and line 62
MainStart ==
    /\ pc = "main"
    /\ Len(argv) >= 1
    /\ out' = Append(out, [ev |-> "loading", n |-> Len(argv)])
    /\ results' = <<>>
    /\ idx' = 1
    /\ pc' = "loop"
    /\ UNCHANGED <<argv, fs, df, reads, saves, exitStatus, chart,
                 nameVars, statVars>>

\* faulty variant: a missing path is skipped without a warning
SkipMissingSilently ==
    /\ pc = "loop"
    /\ idx <= Len(argv)
    /\ ~fs[argv[idx]].exists
    /\ idx' = idx + 1
    /\ UNCHANGED <<argv, fs, pc, df, results, out, reads, saves, exitStatus, chart,
                 nameVars, statVars>>

\* lines 65-67: the path does not exist
SkipMissing ==
    /\ pc = "loop"
    /\ idx <= Len(argv)
    /\ ~fs[argv[idx]].exists
    /\ out' = Append(out, [ev |-> "warning", file |-> argv[idx]])
    /\ idx' = idx + 1
    /\ UNCHANGED <<argv, fs, pc, df, results, reads, saves, exitStatus, chart,
                 nameVars, statVars>>

\* line 70: pd.read_csv
ReadCsv ==
    /\ pc = "loop"
    /\ idx <= Len(argv)
    /\ fs[argv[idx]].exists
    /\ fs[argv[idx]].parsable
    /\ reads' = Append(reads, argv[idx])
    /\ df' = Some([columns |-> fs[argv[idx]].columns, rows |-> fs[argv[idx]].rows])
    /\ pc' = "loaded"
    /\ UNCHANGED <<argv, fs, idx, results, out, saves, exitStatus, chart,
                 nameVars, statVars>>

\* line 70: pd.read_csv raises
ReadCsvFails ==
    /\ pc = "loop"
    /\ idx <= Len(argv)
    /\ fs[argv[idx]].exists
    /\ ~fs[argv[idx]].parsable
    /\ reads' = Append(reads, argv[idx])
    /\ Raise(argv[idx])
    /\ UNCHANGED <<argv, fs, idx, df, results, saves, chart,
                 nameVars, statVars>>

\* lines 73-104: name, statistics, append, progress lines
ProcessFile ==
    /\ pc = "loaded"
    /\ HasColumn(df.val, "response_time_ms")
    /\ HasColumn(df.val, "duration_ms")
    /\ LET r == ResultOf(argv[idx], df.val)
       IN /\ results' = Append(results, r)
          /\ out' = Append(out, [ev |-> "loaded", file |-> argv[idx],
                                 algorithm |-> r.algorithm,
                                 short |-> r.short.some, long |-> r.long.some])
    /\ df' = None
    /\ idx' = idx + 1
    /\ pc' = "loop"
    /\ UNCHANGED <<argv, fs, reads, saves, exitStatus, chart,
                 nameVars, statVars>>

\* faulty variant: a table without a required column is skipped with a warning
ProcessFileSkips ==
    /\ pc = "loaded"
    /\ ~(HasColumn(df.val, "response_time_ms") /\ HasColumn(df.val, "duration_ms"))
    /\ out' = Append(out, [ev |-> "warning", file |-> argv[idx]])
    /\ df' = None
    /\ idx' = idx + 1
    /\ pc' = "loop"
    /\ UNCHANGED <<argv, fs, results, reads, saves, exitStatus, chart,
                 nameVars, statVars>>

\* line 76 or line 39: KeyError for a column the table does not have
ProcessFileFails ==
    /\ pc = "loaded"
    /\ ~(HasColumn(df.val, "response_time_ms") /\ HasColumn(df.val, "duration_ms"))
    /\ Raise(argv[idx])
    /\ UNCHANGED <<argv, fs, idx, df, results, reads, saves, chart,
                 nameVars, statVars>>

\* faulty variant: the error message is printed but the process does not exit
NoResultsContinues ==
    /\ pc = "loop"
    /\ idx > Len(argv)
    /\ results = <<>>
    /\ out' = Append(out, [ev |-> "error"])
    /\ pc' = "sorted"
    /\ UNCHANGED <<argv, fs, idx, df, results, reads, saves, exitStatus, chart,
                 nameVars, statVars>>

\* lines 106-108
NoResults ==
    /\ pc = "loop"
    /\ idx > Len(argv)
    /\ results = <<>>
    /\ out' = Append(out, [ev |-> "error"])
    /\ exitStatus' = 1
    /\ pc' = "exited"
    /\ UNCHANGED <<argv, fs, idx, df, results, reads, saves, chart,
                 nameVars, statVars>>

\* faulty variant: sorting and rendering start as soon as there is a result,
\* without waiting for the end of the loop
SortResultsEarly ==
    /\ pc = "loop"
    /\ results # <<>>
    /\ results' = Sorted(results)
    /\ pc' = "sorted"
    /\ UNCHANGED <<argv, fs, idx, df, out, reads, saves, exitStatus, chart,
                 nameVars, statVars>>

\* lines 110-115
SortResults ==
    /\ pc = "loop"
    /\ idx > Len(argv)
    /\ results # <<>>
    /\ results' = Sorted(results)
    /\ pc' = "sorted"
    /\ UNCHANGED <<argv, fs, idx, df, out, reads, saves, exitStatus, chart,
                 nameVars, statVars>>

\* lines 114-187: tick labels and bar heights
DrawChart ==
    /\ pc = "sorted"
    /\ chart' = [labels |-> [k \in 1..Len(results) |-> results[k].algorithm],
                 short  |-> [k \in 1..Len(results) |-> Bars(results[k].short)],
                 long   |-> [k \in 1..Len(results) |-> Bars(results[k].long)]]
    /\ pc' = "drawn"
    /\ UNCHANGED <<argv, fs, idx, df, results, out, reads, saves, exitStatus,
                 nameVars, statVars>>

\* lines 190-195: savefig, the confirmation line, show
SavePlot ==
    /\ pc = "drawn"
    /\ saves' = saves + 1
    /\ out' = Append(out, [ev |-> "saved"])
    /\ pc' = "saved"
    /\ UNCHANGED <<argv, fs, idx, df, results, reads, exitStatus, chart,
                 nameVars, statVars>>

\* lines 198-237
PrintSummary ==
    /\ pc = "saved"
    /\ out' = Append(out, [ev |-> "summary",
                           blocks |-> [k \in 1..Len(results) |-> SummaryBlock(results[k])]])
    /\ pc' = "printed"
    /\ UNCHANGED <<argv, fs, idx, df, results, reads, saves, exitStatus, chart,
                 nameVars, statVars>>

\* main returns and the interpreter exits with status 0
MainReturn ==
    /\ pc = "printed"
    /\ exitStatus' = 0
    /\ pc' = "exited"
    /\ UNCHANGED <<argv, fs, idx, df, results, out, reads, saves, chart,
                 nameVars, statVars>>

Next ==
    \/ MainUsage
    \/ MainStart
    \/ SkipMissing
    \/ ReadCsv
    \/ ReadCsvFails
    \/ ProcessFile
    \/ ProcessFileFails
    \/ NoResults
    \/ SortResults
    \/ DrawChart
    \/ SavePlot
    \/ PrintSummary
    \/ MainReturn

Spec == Init /\ [][Next]_vars

(***************************************************************************)
(* SpecName: extract_algorithm_name on a family of paths                   *)
(***************************************************************************)
\* directory part
NameDirs ==
    {<<>>,   \* ""
     <<114, 101, 115, 117, 108, 116, 115, 47>>,   \* "results/"
     <<109, 121, 95, 114, 101, 115, 117, 108, 116, 115, 95, 100, 105, 114, 47>>}   \* "my_results_dir/"

\* what stands before the token
NamePrefixes ==
    {<<102, 105, 102, 111>>,   \* "fifo"
     <<83, 106, 102>>,   \* "Sjf"
     <<114, 111, 117, 110, 100, 95, 114, 111, 98, 105, 110>>,   \* "round_robin"
     <<>>,   \* ""
     <<120, 95>>,   \* "x_"
     <<97, 49>>}   \* "a1"

\* the token, or something close to it
NameTokens ==
    {<<95, 114, 101, 115, 117, 108, 116, 115, 95>>,   \* "_results_"
     <<95, 114, 101, 115, 117, 108, 116, 95>>,   \* "_result_"
     <<>>,   \* ""
     <<95, 114, 101, 115, 117, 108, 116, 115>>}   \* "_results"

\* what follows the token
NameTails ==
    {<<>>,   \* ""
     <<49>>,   \* "1"
     <<97, 95, 114, 101, 115, 117, 108, 116, 115, 95, 98>>,   \* "a_results_b"
     <<50, 48, 50, 52, 46, 48, 49>>}   \* "2024.01"

\* file extension
NameExts ==
    {<<46, 99, 115, 118>>,   \* ".csv"
     <<>>}   \* ""

NamePaths ==
    {d \o p \o k \o t \o e : d \in NameDirs, p \in NamePrefixes, k \in NameTokens,
                             t \in NameTails, e \in NameExts}

InitName ==
    /\ filename \in NamePaths
    /\ algo_name = None
    /\ PipeIdle
    /\ StatsIdle

ExtractName ==
    /\ algo_name = None
    /\ algo_name' = Some(extract_algorithm_name(filename))
    /\ UNCHANGED <<filename, pipeVars, statVars>>

NextName == ExtractName

SpecName == InitName /\ [][NextName]_vars

(***************************************************************************)
(* SpecStats: calculate_percentiles and identify_task_types on every table *)
(* of up to MaxRows rows                                                   *)
(***************************************************************************)
StatRows == {Row(rt, dur) : rt \in 0..MaxRT, dur \in 1..MaxDur}

InitStats ==
    /\ st_df \in BoundedSeq(StatRows, MaxRows)
    /\ st_stats = None
    /\ st_types = None
    /\ st_class = None
    /\ st_pc = "loaded"
    /\ PipeIdle
    /\ NameIdle

\* line 76
CalculatePercentiles ==
    /\ st_pc = "loaded"
    /\ st_stats' = Some(calculate_percentiles(ResponseTimes(st_df)))
    /\ st_pc' = "all_stats"
    /\ UNCHANGED <<st_df, st_types, st_class, pipeVars, nameVars>>

\* line 79
IdentifyTaskTypes ==
    /\ st_pc = "all_stats"
    /\ st_types' = Some(identify_task_types(st_df))
    /\ st_pc' = "types"
    /\ UNCHANGED <<st_df, st_stats, st_class, pipeVars, nameVars>>

\* lines 81-89
ClassStatistics ==
    /\ st_pc = "types"
    /\ st_class' = Some([short |-> ClassStats(st_types.val.short),
                         long  |-> ClassStats(st_types.val.long)])
    /\ st_pc' = "class_stats"
    /\ UNCHANGED <<st_df, st_stats, st_types, pipeVars, nameVars>>

NextStats == CalculatePercentiles \/ IdentifyTaskTypes \/ ClassStatistics

SpecStats == InitStats /\ [][NextStats]_vars

(***************************************************************************)
(* Properties of extract_algorithm_name (SpecName)                         *)
(***************************************************************************)
TokenHits(stem) == {k \in 1..Len(stem) : StartsWithAt(stem, RESULTS_TOKEN, k)}

\* what stands before the first "_results_" in the stem
PrefixBeforeToken(stem) == SubSeq(stem, 1, SetMin(TokenHits(stem)) - 1)

\* the prefix is not empty and has no underscore in it
PlainPrefix(stem) ==
    /\ TokenHits(stem) # {}
    /\ PrefixBeforeToken(stem) # <<>>
    /\ \A j \in 1..Len(PrefixBeforeToken(stem)) : ~IsUnderscore(PrefixBeforeToken(stem)[j])

\* C1 as stated: the name is the upper-cased prefix before the first
\* "_results_" of the stem whenever the stem contains the token, and the
\* stem otherwise.
C1_AnyPrefixUppercased ==
    algo_name.some =>
        algo_name.val = IF TokenHits(PathStem(filename)) # {}
                        THEN Upper(PrefixBeforeToken(PathStem(filename)))
                        ELSE PathStem(filename)

\* C1 amended: the name is the upper-cased prefix before the first
\* "_results_" only when that prefix is non-empty and free of underscores;
\* in every other case (no token, empty prefix, prefix with an underscore)
\* the name is the stem, unchanged.
C1_PlainPrefixUppercased ==
    algo_name.some =>
        algo_name.val = IF PlainPrefix(PathStem(filename))
                        THEN Upper(PrefixBeforeToken(PathStem(filename)))
                        ELSE PathStem(filename)

\* a stem that contains the token behind a prefix with an underscore has
\* been given its raw stem as name
C1_Witness ==
    /\ algo_name.some
    /\ TokenHits(PathStem(filename)) # {}
    /\ PrefixBeforeToken(PathStem(filename)) # <<>>
    /\ ~PlainPrefix(PathStem(filename))
    /\ algo_name.val = PathStem(filename)

(***************************************************************************)
(* Properties of identify_task_types and calculate_percentiles (SpecStats) *)
(***************************************************************************)
Count(seq, x) == Cardinality({k \in 1..Len(seq) : seq[k] = x})

\* sub holds exactly the rows of rows whose duration is d
ExactlyRowsWithDuration(sub, rows, d) ==
    \A r \in StatRows :
        Count(sub, r) = IF r.duration_ms = d THEN Count(rows, r) ELSE 0

\* C4: with one distinct duration the short class is every row and the long
\* class is empty, so long statistics are absent; with two or more, short is
\* exactly the rows of minimum duration and long exactly the rows of maximum
\* duration, the two are disjoint, and a row of intermediate duration is in
\* neither.
C4_ShortMinLongMax ==
    st_types.some =>
        LET u == {st_df[k].duration_ms : k \in 1..Len(st_df)}
            t == st_types.val
        IN /\ Cardinality(u) = 1 =>
                 /\ t.short = Some(st_df)
                 /\ t.long = Some(<<>>)
                 /\ st_class.some => (st_class.val.long = None /\ st_class.val.short.some)
           /\ Cardinality(u) >= 2 =>
                 /\ t.short.some /\ t.long.some
                 /\ ExactlyRowsWithDuration(t.short.val, st_df, SetMin(u))
                 /\ ExactlyRowsWithDuration(t.long.val, st_df, SetMax(u))
                 /\ Range(t.short.val) \cap Range(t.long.val) = {}
                 /\ \A k \in 1..Len(st_df) :
                        st_df[k].duration_ms \notin {SetMin(u), SetMax(u)} =>
                            st_df[k] \notin Range(t.short.val) \cup Range(t.long.val)
                 /\ st_class.some => (st_class.val.long.some /\ st_class.val.short.some)

\* a table with three distinct durations has been classified
C4_Witness ==
    /\ st_class.some
    /\ Cardinality({st_df[k].duration_ms : k \in 1..Len(st_df)}) = 3
    /\ Len(st_types.val.short.val) + Len(st_types.val.long.val) < Len(st_df)

\* C7: for a non-empty series median <= p90 <= p99, and each of the three
\* lies between the minimum and the maximum of the series.
C7_PercentilesOrdered ==
    (st_stats.some /\ st_df # <<>>) =>
        LET p == st_stats.val
            lowest == Float(100 * SetMin(Range(ResponseTimes(st_df))))
            highest == Float(100 * SetMax(Range(ResponseTimes(st_df))))
        IN /\ FloatLessEq(p.median, p.p90)
           /\ FloatLessEq(p.p90, p.p99)
           /\ \A m \in {"median", "p90", "p99"} :
                  FloatLessEq(lowest, p[m]) /\ FloatLessEq(p[m], highest)

\* a series whose three percentiles are pairwise different and strictly
\* inside the range
C7_Witness ==
    /\ st_stats.some
    /\ Len(st_df) >= 3
    /\ st_stats.val.median.v < st_stats.val.p90.v
    /\ st_stats.val.p90.v < st_stats.val.p99.v
    /\ st_stats.val.p99.v < 100 * SetMax(Range(ResponseTimes(st_df)))
    /\ st_stats.val.median.v > 100 * SetMin(Range(ResponseTimes(st_df)))

(***************************************************************************)
(* Properties of the script (Spec)                                         *)
(***************************************************************************)
Terminated == pc \in {"exited", "crashed"}

\* the collection loop has been left with at least one result
AfterLoop == pc \in {"sorted", "drawn", "saved", "printed"} \/ (pc = "exited" /\ exitStatus = 0)

PathExists(p) == fs[p].exists
PathMissing(p) == ~fs[p].exists
PathLoadable(p) == fs[p].exists /\ fs[p].parsable /\ Columns \subseteq fs[p].columns
LacksColumn(p) == fs[p].exists /\ fs[p].parsable /\ ~(Columns \subseteq fs[p].columns)

\* the paths the loop is done with
Handled == IF idx >= 1 THEN SubSeq(argv, 1, idx - 1) ELSE <<>>

FilesOf(rs) == [k \in 1..Len(rs) |-> rs[k].file]

IsWarning(e) == e.ev = "warning"
IsLoaded(e) == e.ev = "loaded"
IsFileEvent(e) == e.ev \in {"warning", "loaded", "traceback"}
Printed(kind) == \E k \in 1..Len(out) : out[k].ev = kind
WarnedFiles == LET w == SelectSeq(out, IsWarning) IN [k \in 1..Len(w) |-> w[k].file]

\* rs holds one entry per occurrence of an existing path in paths
OnePerExistingPath(rs, paths) ==
    \A p \in Paths : Count(FilesOf(rs), p) = Count(SelectSeq(paths, PathExists), p)

\* C2: a path that does not exist gets one warning, is not read and yields
\* no result, and the loop goes on: the results are exactly the existing
\* paths handled so far, and a missing path ends the run only through the
\* "no valid files" exit, when no result was collected.
C2_MissingPathsSkipped ==
    /\ \A k \in 1..Len(reads) : PathExists(reads[k])
    /\ WarnedFiles = SelectSeq(Handled, PathMissing)
    /\ ~AfterLoop => FilesOf(results) = SelectSeq(Handled, PathExists)
    /\ AfterLoop => OnePerExistingPath(results, argv)
    /\ pc = "crashed" => PathExists(argv[idx])
    /\ (pc = "exited" /\ argv # <<>>) => idx = Len(argv) + 1
    /\ (pc = "exited" /\ argv # <<>> /\ exitStatus = 1) =>
           (results = <<>> /\ \A k \in 1..Len(argv) : PathMissing(argv[k]))

\* a run over a missing and an existing path has finished with a chart
C2_Witness ==
    /\ pc = "exited"
    /\ exitStatus = 0
    /\ Len(WarnedFiles) >= 1
    /\ Len(results) >= 1
    /\ Len(results) < Len(argv)

\* C3 as stated: status 1 with the usage text for no argument, status 1
\* with the error message when no path exists, status 0 whenever at least
\* one path exists.
C3_ExitZeroIfAnyPathExists ==
    Terminated =>
        /\ argv = <<>> => (exitStatus = 1 /\ Printed("usage"))
        /\ (argv # <<>> /\ \A k \in 1..Len(argv) : PathMissing(argv[k])) =>
               (exitStatus = 1 /\ Printed("error"))
        /\ (\E k \in 1..Len(argv) : PathExists(argv[k])) => exitStatus = 0

\* C3 amended: status 1 with the usage text for no argument; status 1 with
\* the error message when no path exists; status 0 when at least one path
\* exists and every existing path loads with both columns; status 1 from an
\* uncaught exception, with neither usage text nor error message, when some
\* existing path cannot be loaded or lacks a required column.
C3_ExitStatus ==
    Terminated =>
        /\ argv = <<>> => (exitStatus = 1 /\ out = <<[ev |-> "usage"]>>)
        /\ (argv # <<>> /\ \A k \in 1..Len(argv) : PathMissing(argv[k])) =>
               (exitStatus = 1 /\ pc = "exited" /\ out[Len(out)].ev = "error")
        /\ (/\ \E k \in 1..Len(argv) : PathExists(argv[k])
            /\ \A k \in 1..Len(argv) : PathExists(argv[k]) => PathLoadable(argv[k])) =>
               (exitStatus = 0 /\ pc = "exited" /\ ~Printed("usage") /\ ~Printed("error"))
        /\ (\E k \in 1..Len(argv) : PathExists(argv[k]) /\ ~PathLoadable(argv[k])) =>
               (/\ exitStatus = 1 /\ pc = "crashed"
                /\ out[Len(out)].ev = "traceback"
                /\ ~Printed("usage") /\ ~Printed("error"))

\* a run has ended in an uncaught exception after a first file was loaded
C3_Witness ==
    /\ pc = "crashed"
    /\ exitStatus = 1
    /\ Len(results) >= 1

\* C8: if an existing file lacks a required column the run ends in an
\* uncaught exception, at the first existing file that cannot be processed,
\* however many files were processed before it; no image is written and no
\* summary printed, so a chart always covers every existing file.
C8_MalformedIsFatal ==
    /\ (\E k \in 1..Len(argv) : LacksColumn(argv[k])) =>
           /\ saves = 0
           /\ ~Printed("saved")
           /\ ~Printed("summary")
           /\ chart = NoChart
           /\ ~AfterLoop
           /\ Terminated =>
                  /\ pc = "crashed"
                  /\ exitStatus = 1
                  /\ PathExists(argv[idx]) /\ ~PathLoadable(argv[idx])
                  /\ \A k \in 1..(idx - 1) : PathMissing(argv[k]) \/ PathLoadable(argv[k])
                  /\ FilesOf(results) = SelectSeq(Handled, PathExists)
    /\ (saves > 0 \/ Printed("summary")) =>
           /\ OnePerExistingPath(results, argv)
           /\ \A k \in 1..Len(argv) : PathMissing(argv[k]) \/ PathLoadable(argv[k])

\* the run has stopped at a file without a required column after another
\* file was processed
C8_Witness ==
    /\ pc = "crashed"
    /\ df.some
    /\ LacksColumn(argv[idx])
    /\ Len(results) >= 1
    /\ Printed("loaded")
    /\ saves = 0

\* C9: paths are handled one at a time in command-line order, each either
\* skipped or read, processed and reported before the next is touched; the
\* image is written at most once, after the last path and only with a
\* result; the summary follows the image; an exit with status 1 never
\* writes the image.
C9_LinearPipeline ==
    LET fileEvents == SelectSeq(out, IsFileEvent)
        handledNow == IF pc = "crashed" THEN idx ELSE IF idx >= 1 THEN idx - 1 ELSE 0
    IN /\ Len(fileEvents) = handledNow
       /\ \A k \in 1..Len(fileEvents) : fileEvents[k].file = argv[k]
       /\ reads = SelectSeq(SubSeq(argv, 1, IF pc = "loaded" THEN idx ELSE handledNow),
                            PathExists)
       /\ Len(results) = Len(SelectSeq(out, IsLoaded))
       /\ pc = "loaded" <=> df.some /\ pc # "crashed"
       /\ saves <= 1
       /\ saves = 1 => (idx = Len(argv) + 1 /\ results # <<>> /\ chart # NoChart)
       /\ saves = 1 <=> Printed("saved")
       /\ \A k \in 1..Len(out) :
              out[k].ev = "summary" => \E j \in 1..(k - 1) : out[j].ev = "saved"
       /\ exitStatus = 1 => saves = 0
       /\ (pc = "exited" /\ exitStatus = 0) => (saves = 1 /\ out[Len(out)].ev = "summary")

\* a run over two paths, one skipped and one processed, has written the
\* image and printed the summary
C9_Witness ==
    /\ pc = "exited"
    /\ exitStatus = 0
    /\ Len(argv) >= 2
    /\ Printed("warning")
    /\ saves = 1
    /\ out[Len(out)].ev = "summary"

\* the rows of the file a result was computed from
RowsOf(r) == fs[r.file].rows
DistinctDurations(r) == {RowsOf(r)[k].duration_ms : k \in 1..Len(RowsOf(r))}

\* the three subsets of a result: all rows, the rows of minimum duration,
\* and the rows of maximum duration when there are two distinct durations
SubsetIsEmpty(r, kind) ==
    IF kind = "all" THEN RowsOf(r) = <<>>
    ELSE IF kind = "short" THEN RowsOf(r) = <<>>
    ELSE Cardinality(DistinctDurations(r)) < 2

Metrics == {"median", "p90", "p99"}
SummaryBlocks == LET e == SelectSeq(out, LAMBDA x : x.ev = "summary") IN e[1].blocks

\* C5 as stated: for each of the subsets all, short and long, an empty
\* subset has no statistics and its cells in the summary read N/A; a
\* non-empty subset has statistics.
C5_EmptySubsetAbsent ==
    /\ \A k \in 1..Len(results) :
           /\ results[k].short.some <=> ~SubsetIsEmpty(results[k], "short")
           /\ results[k].long.some <=> ~SubsetIsEmpty(results[k], "long")
    /\ Printed("summary") =>
           \A k \in 1..Len(results) : \A kind \in {"all", "short", "long"} :
               \A m \in Metrics :
                   SummaryBlocks[k][kind][m] = NACell <=> SubsetIsEmpty(results[k], kind)

\* C5 amended: for the short and the long subset, an empty subset has no
\* statistics (None, not a number), its cells in the summary read N/A and
\* its bars are drawn with height 0; a non-empty subset has numeric
\* statistics, printed and drawn as they are.  The statistics of all rows
\* are always computed: for a table without rows they are NaN, printed as a
\* formatted float and not as N/A.
C5_EmptyClassAbsent ==
    /\ \A k \in 1..Len(results) :
           /\ results[k].short.some <=> ~SubsetIsEmpty(results[k], "short")
           /\ results[k].long.some <=> ~SubsetIsEmpty(results[k], "long")
           /\ \A m \in Metrics :
                  /\ results[k].all[m].nan <=> SubsetIsEmpty(results[k], "all")
                  /\ results[k].short.some => ~results[k].short.val[m].nan
                  /\ results[k].long.some => ~results[k].long.val[m].nan
    /\ chart # NoChart =>
           \A k \in 1..Len(results) : \A kind \in {"short", "long"} : \A m \in Metrics :
               chart[kind][k][m] = IF SubsetIsEmpty(results[k], kind) THEN Float(0)
                                   ELSE results[k][kind].val[m]
    /\ Printed("summary") =>
           \A k \in 1..Len(results) : \A m \in Metrics :
               /\ SummaryBlocks[k].all[m] = NumberCell(results[k].all[m])
               /\ \A kind \in {"short", "long"} :
                      SummaryBlocks[k][kind][m] =
                          IF SubsetIsEmpty(results[k], kind) THEN NACell
                          ELSE NumberCell(results[k][kind].val[m])

\* the summary has been printed for a table without rows and for a table
\* with a single duration
C5_Witness ==
    /\ Printed("summary")
    /\ \E k \in 1..Len(results) :
           /\ RowsOf(results[k]) = <<>>
           /\ SummaryBlocks[k].all["median"] = NumberCell(NaN)
           /\ SummaryBlocks[k].short["median"] = NACell
           /\ chart.short[k]["median"] = Float(0)
    /\ \E k \in 1..Len(results) :
           /\ Cardinality(DistinctDurations(results[k])) = 1
           /\ results[k].short.some
           /\ results[k].long = None

Displayed == AfterLoop

NamesOf(rs) == [k \in 1..Len(rs) |-> rs[k].algorithm]

Ascending(names, LessEq(_, _)) ==
    \A k \in 1..(Len(names) - 1) : LessEq(names[k], names[k + 1])

CaseInsensitiveLessEq(a, b) == StrLessEq(Lower(a), Lower(b))

ChartAndTableFollow(rs) ==
    /\ chart # NoChart => chart.labels = NamesOf(rs)
    /\ Printed("summary") =>
           [k \in 1..Len(SummaryBlocks) |-> SummaryBlocks[k].algorithm] = NamesOf(rs)

\* C6 as stated: chart and table show the results in ascending order of
\* algorithm name compared without regard to letter case.
C6_CaseInsensitiveOrder ==
    Displayed => (Ascending(NamesOf(results), CaseInsensitiveLessEq) /\ ChartAndTableFollow(results))

\* C6 amended: chart and table show the results in ascending order of
\* algorithm name compared by code point, that is case-sensitively: an
\* upper-case letter sorts before every lower-case letter, so a name from
\* the raw-stem fallback in lower case comes after every upper-cased name.
C6_CodePointOrder ==
    Displayed => (Ascending(NamesOf(results), StrLessEq) /\ ChartAndTableFollow(results))

\* the summary shows two names whose order differs between the two
\* comparisons, and the sort has exchanged two files
C6_Witness ==
    /\ Printed("summary")
    /\ Len(results) = 2
    /\ ~CaseInsensitiveLessEq(results[1].algorithm, results[2].algorithm)
    /\ results[1].file = argv[2]

LoadedEvents == SelectSeq(out, IsLoaded)

\* C10: after the sort there is one result per existing path, repeated
\* paths and equal names counted separately; the sort permutes the
\* collected results, and results of equal name keep command-line order;
\* the chart has one bar group and the table one block per result.
C10_NothingMergedOrDropped ==
    Displayed =>
        /\ Len(results) = Len(SelectSeq(argv, PathExists))
        /\ OnePerExistingPath(results, argv)
        /\ \A k \in 1..Len(results) :
               \E j \in 1..Len(LoadedEvents) :
                   /\ LoadedEvents[j].file = results[k].file
                   /\ LoadedEvents[j].algorithm = results[k].algorithm
        /\ \A n \in Range(NamesOf(results)) :
               FilesOf(SelectSeq(results, LAMBDA r : r.algorithm = n))
                   = FilesOf(SelectSeq(LoadedEvents, LAMBDA e : e.algorithm = n))
        /\ chart # NoChart =>
               /\ Len(chart.labels) = Len(results)
               /\ Len(chart.short) = Len(results)
               /\ Len(chart.long) = Len(results)
        /\ Printed("summary") => Len(SummaryBlocks) = Len(results)

\* two different files with the same algorithm name have both been
\* displayed, in command-line order
C10_Witness ==
    /\ Printed("summary")
    /\ Len(results) = 2
    /\ results[1].algorithm = results[2].algorithm
    /\ results[1].file # results[2].file
    /\ results[1].file = argv[1]
    /\ Len(SummaryBlocks) = 2

====
